---- MODULE Spec2Model ----
(***************************************************************************)
(* Model of the terminal calorie tracker: the foods / logs / configs       *)
(* collections of the document store, the in-memory foodCache of each      *)
(* running process, the handlers of src/index.js that mutate them          *)
(* (addMeal, logMeal, editEntry, deleteEntry, createNewFood, editFood,     *)
(* deleteFood, setDailyGoal), the views that read them (dashboard, weekly  *)
(* report, history, day detail) and main with connectDB, loadFoodCache     *)
(* and its loop.                                                           *)
(*                                                                         *)
(* Store semantics follow Mongoose >= 6 / MongoDB:                         *)
(*  - a schema in strict mode drops every field it does not declare, on    *)
(*    document construction and on update ($set);                          *)
(*  - keys whose value is undefined are removed from an update before it   *)
(*    is sent; array sub-documents get their schema defaults;              *)
(*  - one updateOne / findOneAndUpdate call is one atomic step on one      *)
(*    document.                                                            *)
(* kcal values are integers; sums and differences of them are exact, and  *)
(* the macro estimator is computed as in IEEE 754 double arithmetic.       *)
(***************************************************************************)
EXTENDS Integers, Sequences, FiniteSets, TLC

\* ----------------------------------------------------------------- bounds
MaxDay == 2          \* local calendar days 1..MaxDay
MaxEntries == 2      \* entries in the logs collection
MaxFoods == 2        \* documents in the foods collection
MaxKcal == 2000      \* total kcal given to the macro estimator

Procs == {1, 2}                       \* processes running the program
Names == {"Apple", "Rice"}            \* food / entry names typed by the user
Kcals == {95, 200}                    \* calorie inputs accepted by validate
Categories == {"protein-heavy", "carb-heavy", "fat-heavy", "mixed"}
EditCategories == {"mixed"}           \* categories picked in the prompts
Slots == {"Morning"}                  \* time slots picked in the slot prompt

Undef == -1                           \* JavaScript undefined (numeric field)
NoCategory == "undefined"             \* JavaScript undefined (category field)
\* a process in the UTC timezone, at noon: tz is minutes east of UTC
\* (-getTimezoneOffset()), minute is the local minute of the day
UtcNoon == [tz |-> 0, minute |-> 720]
\* nothing computed for display yet
NoOut == [op |-> "none"]
\* no DailyLog document in hand (the ids of stored documents start at 1)
NoView == [id |-> 0, date |-> 0, entries |-> <<>>,
           totalKcal |-> 0, totalProtein |-> 0, totalCarbs |-> 0, totalFat |-> 0]

\* ------------------------------------------------------- macro estimator
\* the nearest integer to n / d, halves upward, for n >= 0, d > 0
Round(n, d) == (2 * n + d) \div (2 * d)

\* ratio table of estimateMacros, in percent of total kcal
ratios(category) ==
  CASE category = "protein-heavy" -> [protein |-> 40, carbs |-> 20, fat |-> 30]
    [] category = "carb-heavy"    -> [protein |-> 15, carbs |-> 70, fat |-> 15]
    [] category = "fat-heavy"     -> [protein |-> 10, carbs |-> 10, fat |-> 80]
    [] category = "mixed"         -> [protein |-> 30, carbs |-> 40, fat |-> 30]

\* The ratios are IEEE 754 doubles. The double nearest to pct / 100 is
\* (pct * 2^shift + err) / (100 * 2^shift): err < 0 where it lies below the
\* decimal fraction (0.3, 0.15, 0.7), err > 0 where it lies above.
DoubleOf(pct) ==
  CASE pct = 40 -> [shift |-> 54, err |-> 40]
    [] pct = 20 -> [shift |-> 55, err |-> 40]
    [] pct = 30 -> [shift |-> 54, err |-> -20]
    [] pct = 15 -> [shift |-> 55, err |-> -20]
    [] pct = 70 -> [shift |-> 53, err |-> -40]
    [] pct = 10 -> [shift |-> 56, err |-> 40]
    [] pct = 80 -> [shift |-> 53, err |-> 40]

\* the binary exponent of n / d, for n >= d
Log2Floor(n, d) ==
  CHOOSE e \in 0..20 : (2 ^ e) * d <= n /\ n < (2 ^ (e + 1)) * d

\* totalKcal * r in double arithmetic, where the exact product is a double
\* itself: the computed product is the double below it when the error of
\* the ratio, totalKcal * err / (100 * 2^shift), exceeds half the spacing
\* 2^(exponent - 52) of the doubles there (at exactly half, round-to-even
\* keeps the exact product)
ProductBelow(totalKcal, pct) ==
  /\ totalKcal * pct >= 100
  /\ LET f == DoubleOf(pct)
         g == Log2Floor(totalKcal * pct, 100) - 52 + f.shift
     IN  (-totalKcal) * f.err > 50 * (2 ^ g)

\* Math.round((totalKcal * r) / d) with r = pct / 100: the product and the
\* quotient carry a relative error below 2^-51, so the result is the nearest
\* integer to totalKcal * pct / (100 * d), except at an exact half, which
\* Math.round(x) = floor(x + 0.5) sends upward only if the computed quotient
\* did not fall below it
MathRound(totalKcal, pct, d) ==
  LET n == totalKcal * pct
      half == (2 * n + 100 * d) % (200 * d) = 0
  IN  Round(n, 100 * d) - (IF half /\ ProductBelow(totalKcal, pct) THEN 1 ELSE 0)

\* reading a property of undefined (ratios[category] for a key the table lacks)
TypeError == [error |-> "TypeError"]

\* Fault injected to test C14: grams are cut off instead of rounded
estimateMacrosFloor(totalKcal, category) ==
  LET r == ratios(category)
  IN  [protein |-> (totalKcal * r.protein) \div 400,
       carbs   |-> (totalKcal * r.carbs) \div 400,
       fat     |-> (totalKcal * r.fat) \div 900]

\* estimateMacros(totalKcal, category = 'mixed'): the default applies to an
\* argument that is undefined, not to a string the table lacks
estimateMacros(totalKcal, category) ==
  LET cat == IF category = NoCategory THEN "mixed" ELSE category
  IN  IF cat \notin Categories
      THEN TypeError
      ELSE LET r == ratios(cat)
           IN  [protein |-> MathRound(totalKcal, r.protein, 4),
                carbs   |-> MathRound(totalKcal, r.carbs, 4),
                fat     |-> MathRound(totalKcal, r.fat, 9)]

\* calculateCaloriesFromMacros: Math.round of an integer
calculateCaloriesFromMacros(protein, carbs, fat) ==
  (protein * 4) + (carbs * 4) + (fat * 9)

\* ------------------------------------------------------------- sequences
RECURSIVE SumOf(_, _)
\* sum of field f over the entries of a sequence
SumOf(s, f) == IF s = <<>> THEN 0 ELSE Head(s)[f] + SumOf(Tail(s), f)

\* Array.prototype.filter / $pull: keep the elements that satisfy Keep
Filter(s, Keep(_)) == SelectSeq(s, Keep)

\* Array.prototype.find by _id: index of the first element with that id, 0 if none
IndexOfId(s, id) ==
  IF \E i \in 1..Len(s) : s[i].id = id
  THEN CHOOSE i \in 1..Len(s) : s[i].id = id /\ \A j \in 1..(i - 1) : s[j].id # id
  ELSE 0

\* s without its element at index j
RemoveAt(s, j) == SubSeq(s, 1, j - 1) \o SubSeq(s, j + 1, Len(s))

VARIABLES
  foods,      \* foods collection: sequence of Food documents, insertion order
  logs,       \* logs collection: sequence of Log documents, insertion order
  foodCache,  \* foodCache[p]: the in-memory array of process p
  view,       \* view[p]: the Log document showDayDetail of p read, or NoView
  today,      \* the local calendar date getLocalDate() returns
  lastOp,     \* the mutating handler that ran last and how it ended
  clock,      \* the process's timezone and the local time of day
  out,        \* what the handler that ran last computed for display
  config,     \* configs collection: sequence of Config documents
  pc,         \* where main is: connectDB, loadFoodCache, the loop, or exited
  issued      \* persistence writes issued since the user's last menu choice

vars == <<foods, logs, foodCache, view, today, lastOp, clock, out, config, pc,
          issued>>

\* ------------------------------------------------------------ ObjectIds
\* ObjectIds are opaque and only compared for equality, so a new one is the
\* least id that no stored document and no document held by a process uses.
LeastUnused(used) ==
  CHOOSE i \in 1..(Cardinality(used) + 1) :
    i \notin used /\ \A j \in 1..(i - 1) : j \in used

EntryIdsOf(doc) == {doc.entries[i].id : i \in 1..Len(doc.entries)}

UsedEntryIds ==
  UNION ({EntryIdsOf(logs[k]) : k \in 1..Len(logs)}
         \cup {EntryIdsOf(view[p]) : p \in Procs})

UsedFoodIds ==
  {foods[i].id : i \in 1..Len(foods)}
    \cup UNION {{foodCache[p][i].id : i \in 1..Len(foodCache[p])} : p \in Procs}

\* ------------------------------------------------------ models/Food.js
\* FoodSchema declares name and kcal only: in strict mode every other field
\* given to the constructor or to $set is dropped.
FoodSchemaCast(raw) ==
  [id |-> raw.id, name |-> raw.name, kcal |-> raw.kcal,
   protein |-> Undef, carbs |-> Undef, fat |-> Undef, category |-> NoCategory]

\* LogSchema entry sub-document: protein, carbs and fat default to 0
DefaultZero(v) == IF v = Undef THEN 0 ELSE v

EntryCast(raw) ==
  [id |-> raw.id, name |-> raw.name, kcal |-> raw.kcal,
   protein |-> DefaultZero(raw.protein), carbs |-> DefaultZero(raw.carbs),
   fat |-> DefaultZero(raw.fat), time |-> raw.time, timeSlot |-> raw.timeSlot]

\* a Log document as the upsert inserts it (setDefaultsOnInsert)
NewLog(id, date) ==
  [id |-> id, date |-> date, entries |-> <<>>,
   totalKcal |-> 0, totalProtein |-> 0, totalCarbs |-> 0, totalFat |-> 0]

\* $inc of one field; a key whose value is undefined is not sent
Inc(total, v) == IF v = Undef THEN total ELSE total + v

\* Log.findOne({ date }): index of the document with that date, 0 if none
IndexOfDate(lg, date) ==
  IF \E k \in 1..Len(lg) : lg[k].date = date
  THEN CHOOSE k \in 1..Len(lg) : lg[k].date = date /\ \A j \in 1..(k - 1) : lg[j].date # date
  ELSE 0

\* --------------------------------------------------- ledger store updates
\* Fault injected to test C5: the entry list and the totals are written
\* from the meal alone, as a read-modify-write on an empty day would
PushIncReplace(doc, entry, food) ==
  [doc EXCEPT !.entries = <<entry>>,
              !.totalKcal = Inc(0, food.kcal),
              !.totalProtein = Inc(0, food.protein),
              !.totalCarbs = Inc(0, food.carbs),
              !.totalFat = Inc(0, food.fat)]

\* $push of one entry and $inc of the four totals on one Log document.
\* The entry is cast by the schema; the increments are the raw food values.
PushInc(doc, entry, food) ==
  [doc EXCEPT !.entries = Append(@, entry),
              !.totalKcal = Inc(@, food.kcal),
              !.totalProtein = Inc(@, food.protein),
              !.totalCarbs = Inc(@, food.carbs),
              !.totalFat = Inc(@, food.fat)]

\* Fault injected to test C4: the day is never looked up, a document is
\* inserted for every meal
logMealInsert(lg, date, food, time, timeSlot, entryId) ==
  LET entry == EntryCast([id |-> entryId, name |-> food.name, kcal |-> food.kcal,
                          protein |-> food.protein, carbs |-> food.carbs,
                          fat |-> food.fat, time |-> time, timeSlot |-> timeSlot])
  IN  Append(lg, PushInc(NewLog(Len(lg) + 1, date), entry, food))

\* Log.findOneAndUpdate({ date }, { $push, $inc }, { upsert: true }): the
\* document of that date, inserted first when the collection has none.
logMeal(lg, date, food, time, timeSlot, entryId) ==
  LET entry == EntryCast([id |-> entryId, name |-> food.name, kcal |-> food.kcal,
                          protein |-> food.protein, carbs |-> food.carbs,
                          fat |-> food.fat, time |-> time, timeSlot |-> timeSlot])
      found == IndexOfDate(lg, date)
      base  == IF found = 0 THEN Append(lg, NewLog(Len(lg) + 1, date)) ELSE lg
      k     == IF found = 0 THEN Len(lg) + 1 ELSE found
  IN  [base EXCEPT ![k] = PushInc(@, entry, food)]

\* Fault injected to test C3: the new values are added, the old ones stay
EditDeltasNoOld(entryToEdit, newKcal, macros) ==
  [kcal |-> newKcal, protein |-> macros.protein, carbs |-> macros.carbs,
   fat |-> macros.fat]

\* the four differences editEntry computes from the document it holds
EditDeltas(entryToEdit, newKcal, macros) ==
  [kcal    |-> newKcal - entryToEdit.kcal,
   protein |-> macros.protein - entryToEdit.protein,
   carbs   |-> macros.carbs - entryToEdit.carbs,
   fat     |-> macros.fat - entryToEdit.fat]

\* Fault injected to test C29: $set of the whole array element, which
\* stores a new sub-document with the five edited fields only
SetElemWhole(entries, id, newName, newKcal, macros) ==
  [i \in 1..Len(entries) |->
     IF entries[i].id = id
     THEN [id |-> id, name |-> newName, kcal |-> newKcal,
           protein |-> macros.protein, carbs |-> macros.carbs,
           fat |-> macros.fat, time |-> "", timeSlot |-> ""]
     ELSE entries[i]]

\* $set on "entries.$[elem].<field>" with arrayFilters [{ "elem._id": id }]
SetElem(entries, id, newName, newKcal, macros) ==
  [i \in 1..Len(entries) |->
     IF entries[i].id = id
     THEN [entries[i] EXCEPT !.name = newName, !.kcal = newKcal,
                             !.protein = macros.protein,
                             !.carbs = macros.carbs, !.fat = macros.fat]
     ELSE entries[i]]

\* $inc of the four totals by d
IncTotals(doc, d) ==
  [doc EXCEPT !.totalKcal = @ + d.kcal, !.totalProtein = @ + d.protein,
              !.totalCarbs = @ + d.carbs, !.totalFat = @ + d.fat]

\* Log.updateOne({ _id }, { $set, $inc }, { arrayFilters }) of editEntry:
\* the $inc applies to the matched document whether or not an element matches
editEntryUpdate(lg, logId, entryId, newName, newKcal, macros, d) ==
  [k \in 1..Len(lg) |->
     IF lg[k].id = logId
     THEN IncTotals([lg[k] EXCEPT !.entries = SetElem(@, entryId, newName, newKcal, macros)], d)
     ELSE lg[k]]

\* Fault injected to test C1: only the calories are decremented
DeleteDeltasKcalOnly(entryToDelete) ==
  [kcal |-> -entryToDelete.kcal, protein |-> 0, carbs |-> 0, fat |-> 0]

\* the decrements deleteEntry computes from the document it holds
DeleteDeltas(entryToDelete) ==
  [kcal |-> -entryToDelete.kcal, protein |-> -entryToDelete.protein,
   carbs |-> -entryToDelete.carbs, fat |-> -entryToDelete.fat]

\* Fault injected to test C6: the first entry is pulled, whatever its id
PullFirst(entries, id) == Tail(entries)

\* $pull: { entries: { _id: id } }
PullElem(entries, id) == LET Keep(e) == e.id # id IN Filter(entries, Keep)

\* Log.updateOne({ _id }, { $pull, $inc }) of deleteEntry
deleteEntryUpdate(lg, logId, entryId, d) ==
  [k \in 1..Len(lg) |->
     IF lg[k].id = logId
     THEN IncTotals([lg[k] EXCEPT !.entries = PullElem(@, entryId)], d)
     ELSE lg[k]]

\* ------------------------------------------------------- catalog (foods)
\* the catalog seedDatabase leaves in the store on first start
SeedFoods == <<FoodSchemaCast([id |-> 1, name |-> "Apple", kcal |-> 95])>>

NameTaken(fs, name, exceptId) ==
  \E j \in 1..Len(fs) : fs[j].name = name /\ fs[j].id # exceptId

\* the document `new Food({ name, kcal, protein, carbs, fat, category })` builds
newFood(id, name, kcal, category) ==
  LET m == estimateMacros(kcal, category)
  IN  FoodSchemaCast([id |-> id, name |-> name, kcal |-> kcal,
                      protein |-> m.protein, carbs |-> m.carbs, fat |-> m.fat,
                      category |-> category])

\* Fault injected to test C11: the foods collection has no unique index on name
saveResultNoIndex(name, ok) == IF ~ok THEN "StoreError" ELSE "ok"

\* how newFood.save() ends: the unique index on name rejects a duplicate (11000)
saveResult(name, ok) ==
  IF ~ok THEN "StoreError"
  ELSE IF NameTaken(foods, name, 0) THEN "DuplicateName" ELSE "ok"

\* Fault injected to test C10: the cache is pushed before save() has answered
createNewFoodEager(p, name, kcal, category, ok) ==
  LET savedFood == newFood(LeastUnused(UsedFoodIds), name, kcal, category)
  IN  /\ Len(foodCache[p]) < MaxFoods
      /\ foodCache' = [foodCache EXCEPT ![p] = Append(@, savedFood)]
      /\ IF saveResult(name, ok) = "ok"
         THEN Len(foods) < MaxFoods /\ foods' = Append(foods, savedFood)
         ELSE UNCHANGED foods

\* createNewFood, lines 392-409: save, then push the saved document on the cache
createNewFood(p, name, kcal, category, ok) ==
  LET savedFood == newFood(LeastUnused(UsedFoodIds), name, kcal, category)
  IN  IF saveResult(name, ok) = "ok"
      THEN /\ Len(foods) < MaxFoods
           /\ foods' = Append(foods, savedFood)
           /\ foodCache' = [foodCache EXCEPT ![p] = Append(@, savedFood)]
      ELSE UNCHANGED <<foods, foodCache>>

\* Fault injected to test C12: the duplicate check counts the edited food too
updateResultNoExclude(id, newName, ok) ==
  IF ~ok THEN "StoreError"
  ELSE IF IndexOfId(foods, id) # 0 /\ NameTaken(foods, newName, 0)
       THEN "DuplicateName" ELSE "ok"

\* Food.updateOne({ _id }, { $set: {...} }): strict mode keeps name and kcal
updateResult(id, newName, ok) ==
  IF ~ok THEN "StoreError"
  ELSE IF IndexOfId(foods, id) # 0 /\ NameTaken(foods, newName, id)
       THEN "DuplicateName" ELSE "ok"

foodUpdateOne(fs, id, newName, newKcal, macros, newCategory) ==
  [j \in 1..Len(fs) |->
     IF fs[j].id = id
     THEN FoodSchemaCast([id |-> id, name |-> newName, kcal |-> newKcal,
                          protein |-> macros.protein, carbs |-> macros.carbs,
                          fat |-> macros.fat, category |-> newCategory])
     ELSE fs[j]]

\* editFood, lines 941-947: the six assignments on the cached document
cacheAssign(food, newName, newKcal, macros, newCategory) ==
  [food EXCEPT !.name = newName, !.kcal = newKcal, !.protein = macros.protein,
               !.carbs = macros.carbs, !.fat = macros.fat,
               !.category = newCategory]

\* Food.deleteOne({ _id }) and foodCache.filter(f => !f._id.equals(id))
RemoveId(s, id) == LET Keep(f) == f.id # id IN Filter(s, Keep)

\* ------------------------------------------------------------------ Init
\* the configs collection after seedDatabase, lines 33-42
SeededConfig == <<[key |-> "user_settings", dailyGoal |-> 2000]>>

\* connectDB and loadFoodCache are over, main is in its loop, the settings
\* document exists
Running ==
  /\ config = SeededConfig
  /\ pc = "showDashboard"
  /\ issued = 0

Init ==
  /\ foods = SeedFoods
  /\ logs = <<>>
  /\ foodCache = [p \in Procs |-> SeedFoods]     \* loadFoodCache: Food.find({})
  /\ view = [p \in Procs |-> NoView]
  /\ today = 1
  /\ lastOp = [op |-> "main", res |-> "ok"]
  /\ clock = UtcNoon
  /\ Running
  /\ out = NoOut

Times == {"08:30"}                    \* getCurrentTime() readings

RECURSIVE CountEntries(_)
CountEntries(lg) ==
  IF lg = <<>> THEN 0 ELSE Len(Head(lg).entries) + CountEntries(Tail(lg))

\* where main of the interactive process (process 1) is after a step of
\* process p's handler; a second process has a main of its own
mainAt(p, where) == pc' = IF p = 1 THEN where ELSE pc

\* the handler returns to showDashboard and that to the loop of main, lines
\* 42-44, or its exception reaches the catch of main, line 45
handlerEnds(p, thrown) == mainAt(p, IF thrown THEN "catch" ELSE "showDashboard")

\* Fault injected to test C27: a findOneAndUpdate that fails is sent again,
\* and the second one is applied
logMealStepRetry(food, time, slot, ok) ==
  /\ CountEntries(logs) < MaxEntries
  /\ logs' = logMeal(logs, today, food, time, slot, LeastUnused(UsedEntryIds))
  /\ issued' = IF ok THEN 1 ELSE 2

\* the persistence step of addMeal -> logMeal(foodToAdd, timeSlot)
logMealStep(food, time, slot, ok) ==
  /\ IF ok
     THEN /\ CountEntries(logs) < MaxEntries
          /\ logs' = logMeal(logs, today, food, time, slot, LeastUnused(UsedEntryIds))
     ELSE UNCHANGED logs
  /\ issued' = 1

\* ---------------------------------------------------------------- actions
\* main, lines 28-39: a process starts and loads the catalog into its cache
main(p) ==
  /\ foodCache' = [foodCache EXCEPT ![p] = foods]
  /\ view' = [view EXCEPT ![p] = NoView]
  /\ lastOp' = [op |-> "main", res |-> "ok"]
  /\ mainAt(p, "showDashboard")
  /\ issued' = 0
  /\ UNCHANGED <<foods, logs, today, clock, config, out>>

\* addMeal with a food picked from the search results
addMeal(p, i, time, slot, ok) ==
  /\ view[p] = NoView
  /\ i \in 1..Len(foodCache[p])
  /\ logMealStep(foodCache[p][i], time, slot, ok)
  /\ lastOp' = [op |-> "addMeal", res |-> IF ok THEN "ok" ELSE "StoreError"]
  /\ handlerEnds(p, ~ok)
  /\ UNCHANGED <<foods, foodCache, view, today, clock, config, out>>

\* Date.prototype.getHours(): the local hour of the day
getHours == clock.minute \div 60

\* Fault injected to test C24: the upper limits of the slots are inclusive
getTimeSlotInclusive ==
  LET hour == getHours
  IN  IF hour >= 5 /\ hour <= 12 THEN "Morning"
      ELSE IF hour >= 12 /\ hour <= 17 THEN "Afternoon"
      ELSE IF hour >= 17 /\ hour <= 21 THEN "Evening"
      ELSE "Night"

\* getTimeSlot, src/utils.js 29-41
getTimeSlot ==
  LET hour == getHours
  IN  IF hour >= 5 /\ hour < 12 THEN "Morning"
      ELSE IF hour >= 12 /\ hour < 17 THEN "Afternoon"
      ELSE IF hour >= 17 /\ hour < 21 THEN "Evening"
      ELSE "Night"

\* the choices of the time slot prompt, line 460
SlotChoices == {"Auto", "Morning", "Afternoon", "Evening", "Night"}

\* addMeal, lines 454-467: the slot is asked for, 'Auto' takes the slot of
\* the current hour
addMealSlot(p, i, time, slot, ok) ==
  addMeal(p, i, time, IF slot = "Auto" THEN getTimeSlot ELSE slot, ok)

\* addMeal with "Create New Food": createNewFood, then logMeal of what it returns
addMealCreateNew(p, name, kcal, category, time, slot, okSave, okLog) ==
  /\ view[p] = NoView
  /\ createNewFood(p, name, kcal, category, okSave)
  /\ IF saveResult(name, okSave) = "ok"
     THEN /\ logMealStep(newFood(LeastUnused(UsedFoodIds), name, kcal, category),
                         time, slot, okLog)
          /\ lastOp' = [op |-> "addMealCreateNew",
                        res |-> IF okLog THEN "ok" ELSE "StoreError"]
     ELSE /\ UNCHANGED logs
          /\ issued' = 1
          /\ lastOp' = [op |-> "createNewFood", res |-> saveResult(name, okSave)]
  /\ handlerEnds(p, saveResult(name, okSave) = "ok" /\ ~okLog)
  /\ UNCHANGED <<view, today, clock, config, out>>

\* addFood of the food management menu
addFood(p, name, kcal, category, ok) ==
  /\ view[p] = NoView
  /\ createNewFood(p, name, kcal, category, ok)
  /\ lastOp' = [op |-> "createNewFood", res |-> saveResult(name, ok)]
  /\ handlerEnds(p, FALSE)
  /\ issued' = 1
  /\ UNCHANGED <<logs, view, today, clock, config, out>>

\* Fault injected to test C7: entries refer to the food, so an edit of the
\* food rewrites the entries logged from it (their day's totals stay)
editFoodLive(p, i, newName, newKcal, newCategory, ok) ==
  /\ view[p] = NoView
  /\ i \in 1..Len(foodCache[p])
  /\ LET foodToEdit == foodCache[p][i]
         macros == estimateMacros(newKcal, newCategory)
         res == updateResult(foodToEdit.id, newName, ok)
         Live(e) == IF e.name = foodToEdit.name
                    THEN [e EXCEPT !.name = newName, !.kcal = newKcal]
                    ELSE e
     IN  /\ IF res = "ok"
            THEN /\ foods' = foodUpdateOne(foods, foodToEdit.id, newName, newKcal,
                                           macros, newCategory)
                 /\ foodCache' = [foodCache EXCEPT ![p][i] =
                                    cacheAssign(@, newName, newKcal, macros, newCategory)]
                 /\ logs' = [k \in 1..Len(logs) |->
                              [logs[k] EXCEPT !.entries =
                                 [j \in 1..Len(logs[k].entries) |->
                                    Live(logs[k].entries[j])]]]
            ELSE UNCHANGED <<foods, foodCache, logs>>
         /\ lastOp' = [op |-> "editFood", res |-> res]
  /\ handlerEnds(p, FALSE)
  /\ issued' = 1
  /\ UNCHANGED <<view, today, clock, config, out>>

editFood(p, i, newName, newKcal, newCategory, ok) ==
  /\ view[p] = NoView
  /\ i \in 1..Len(foodCache[p])
  /\ LET foodToEdit == foodCache[p][i]
         macros == estimateMacros(newKcal, newCategory)
         res == updateResult(foodToEdit.id, newName, ok)
     IN  /\ IF res = "ok"
            THEN /\ foods' = foodUpdateOne(foods, foodToEdit.id, newName, newKcal,
                                           macros, newCategory)
                 /\ foodCache' = [foodCache EXCEPT ![p][i] =
                                    cacheAssign(@, newName, newKcal, macros, newCategory)]
            ELSE UNCHANGED <<foods, foodCache>>
         /\ lastOp' = [op |-> "editFood", res |-> res]
  /\ handlerEnds(p, FALSE)
  /\ issued' = 1
  /\ UNCHANGED <<logs, view, today, clock, config, out>>

deleteFood(p, i, ok) ==
  /\ view[p] = NoView
  /\ i \in 1..Len(foodCache[p])
  /\ LET foodToDelete == foodCache[p][i]
     IN  IF ok
         THEN /\ foods' = RemoveId(foods, foodToDelete.id)
              /\ foodCache' = [foodCache EXCEPT ![p] = RemoveId(@, foodToDelete.id)]
         ELSE UNCHANGED <<foods, foodCache>>
  /\ lastOp' = [op |-> "deleteFood", res |-> IF ok THEN "ok" ELSE "StoreError"]
  /\ handlerEnds(p, FALSE)
  /\ issued' = 1
  /\ UNCHANGED <<logs, view, today, clock, config, out>>

\* showDayDetail, line 561: read the day's Log document
showDayDetail(p, date) ==
  /\ view[p] = NoView
  /\ IndexOfDate(logs, date) # 0
  /\ view' = [view EXCEPT ![p] = logs[IndexOfDate(logs, date)]]
  /\ mainAt(p, "menu")
  /\ UNCHANGED <<foods, logs, foodCache, today, lastOp, clock, config, issued, out>>

\* "Go Back to History"
back(p) ==
  /\ view[p] # NoView
  /\ view' = [view EXCEPT ![p] = NoView]
  /\ handlerEnds(p, FALSE)
  /\ UNCHANGED <<foods, logs, foodCache, today, lastOp, clock, config, issued, out>>

editEntry(p, entryIdToEdit, newName, newKcal, newCategory, ok) ==
  /\ view[p] # NoView
  /\ entryIdToEdit \in EntryIdsOf(view[p])
  /\ LET log == view[p]
         entryToEdit == log.entries[IndexOfId(log.entries, entryIdToEdit)]
         macros == estimateMacros(newKcal, newCategory)
     IN  IF ok
         THEN logs' = editEntryUpdate(logs, log.id, entryIdToEdit, newName, newKcal,
                                      macros, EditDeltas(entryToEdit, newKcal, macros))
         ELSE UNCHANGED logs
  /\ view' = [view EXCEPT ![p] = NoView]
  /\ lastOp' = [op |-> "editEntry", res |-> IF ok THEN "ok" ELSE "StoreError"]
  /\ mainAt(p, IF ok THEN "menu" ELSE "catch")
  /\ issued' = 1
  /\ UNCHANGED <<foods, foodCache, today, clock, config, out>>

deleteEntry(p, entryIdToDelete, ok) ==
  /\ view[p] # NoView
  /\ entryIdToDelete \in EntryIdsOf(view[p])
  /\ LET log == view[p]
         entryToDelete == log.entries[IndexOfId(log.entries, entryIdToDelete)]
     IN  IF ok
         THEN logs' = deleteEntryUpdate(logs, log.id, entryIdToDelete,
                                        DeleteDeltas(entryToDelete))
         ELSE UNCHANGED logs
  /\ view' = [view EXCEPT ![p] = NoView]
  /\ lastOp' = [op |-> "deleteEntry", res |-> IF ok THEN "ok" ELSE "StoreError"]
  /\ mainAt(p, IF ok THEN "menu" ELSE "catch")
  /\ issued' = 1
  /\ UNCHANGED <<foods, foodCache, today, clock, config, out>>

\* ----------------------------------------------------------- the prompts
\* validate of the name prompt of createNewFood, line 356
validateName(input) == input # ""

\* Fault injected to test C13: validate only checks that the input is a number
validateKcalAny(kcal) == kcal \in Int

\* validate of the calories prompts, lines 370-373, 681-684 and 912-915, on
\* the number parseFloat returns
validateKcal(kcal) == kcal >= 0

\* an input prompt that has a default (lines 674 and 905) answers the
\* default when the user enters nothing
promptInput(input, default) == IF input = "" THEN default ELSE input

\* addFood as the user drives it: a prompt asks again until validate accepts
\* the input, and "cancel" leaves the handler (lines 351-375)
addFoodPrompt(p, nameInput, kcalInput, category, ok) ==
  /\ validateName(nameInput)
  /\ nameInput # "cancel"
  /\ validateKcal(kcalInput)
  /\ addFood(p, nameInput, kcalInput, category, ok)

\* editFood as the user drives it (lines 900-934)
editFoodPrompt(p, i, nameInput, kcalInput, newCategory, ok) ==
  /\ i \in 1..Len(foodCache[p])
  /\ validateKcal(kcalInput)
  /\ editFood(p, i, promptInput(nameInput, foodCache[p][i].name), kcalInput,
              newCategory, ok)

\* editEntry as the user drives it (lines 666-703)
editEntryPrompt(p, entryIdToEdit, nameInput, kcalInput, newCategory, ok) ==
  /\ entryIdToEdit \in EntryIdsOf(view[p])
  /\ validateKcal(kcalInput)
  /\ LET entryToEdit ==
           view[p].entries[IndexOfId(view[p].entries, entryIdToEdit)]
     IN  editEntry(p, entryIdToEdit, promptInput(nameInput, entryToEdit.name),
                   kcalInput, newCategory, ok)

\* ------------------------------------------------- the estimator, called
\* a caller evaluates estimateMacros(kcal, category) on the arguments at hand
estimateCall ==
  /\ out.op = "arguments"
  /\ out' = [op |-> "estimateMacros", kcal |-> out.kcal, category |-> out.category,
             result |-> estimateMacros(out.kcal, out.category)]
  /\ UNCHANGED <<foods, logs, foodCache, view, today, lastOp, clock, config, pc, issued>>

\* and feeds the estimate to calculateCaloriesFromMacros
caloriesCall ==
  /\ out.op = "estimateMacros"
  /\ out.result # TypeError
  /\ out' = [op |-> "calculateCaloriesFromMacros", kcal |-> out.kcal,
             category |-> out.category, macros |-> out.result,
             result |-> calculateCaloriesFromMacros(out.result.protein,
                                                    out.result.carbs, out.result.fat)]
  /\ UNCHANGED <<foods, logs, foodCache, view, today, lastOp, clock, config, pc, issued>>

\* ------------------------------------------------------ dates and times
\* Instants are minutes since 1970-01-01T00:00Z, dates are days since
\* 1970-01-01 ("YYYY-MM-DD" strings compared for equality). The zone of the
\* machine changes with setTimezone only; daylight saving is not modelled.
DayMinutes == 1440

\* new Date(): the instant at which the local date is today and the local
\* time of day is clock.minute
now == today * DayMinutes + clock.minute - clock.tz

\* Date.prototype.getTimezoneOffset(): minutes to add to local time to get UTC
getTimezoneOffset == -clock.tz

\* d.toISOString().split('T')[0]: the UTC calendar date of an instant
toISODate(t) == t \div DayMinutes

\* getLocalDate, src/utils.js 6-12
getLocalDate == toISODate(now - getTimezoneOffset)

\* d.setHours(0, 0, 0, 0): the instant of local midnight of t's local date
setHoursZero(t) ==
  ((t - getTimezoneOffset) \div DayMinutes) * DayMinutes + getTimezoneOffset

\* d.setDate(d.getDate() + n): the same local time of day, n local days on
addDays(t, n) == t + n * DayMinutes

\* d.getDay(): 0 (Sunday) .. 6 (Saturday) of t's local date; day 0 is a Thursday
getDay(t) == (((t - getTimezoneOffset) \div DayMinutes) + 4) % 7

\* ------------------------------------------------------------ statistics
ScanLimit == 365
DailyGoal == 2000

\* Log.findOne({ date: dateStr }).totalKcal, or Undef when there is no log
totalKcalOn(dateStr) ==
  IF IndexOfDate(logs, dateStr) = 0 THEN Undef
  ELSE logs[IndexOfDate(logs, dateStr)].totalKcal

RECURSIVE streakLoop(_, _, _, _)
\* the for loop of calculateStreak, lines 62-73, from iteration i on: the
\* streak it ends with and the dates it has looked up
streakLoop(i, streak, lookups, dailyGoal) ==
  IF i < ScanLimit
  THEN LET historyDate == addDays(setHoursZero(now), -i)
           dateStr == toISODate(historyDate)
           kcal == totalKcalOn(dateStr)
       IN  IF kcal # Undef /\ kcal <= dailyGoal /\ kcal > 0
           THEN streakLoop(i + 1, streak + 1, Append(lookups, dateStr), dailyGoal)
           ELSE [streak |-> streak, lookups |-> Append(lookups, dateStr)]
  ELSE [streak |-> streak, lookups |-> lookups]

\* Fault injected to test C19: a day that does not qualify ends the streak,
\* today like any other day
calculateStreakTodayBreaks(dailyGoal) ==
  LET loop == streakLoop(1, 0, <<>>, dailyGoal)
      kcal == totalKcalOn(getLocalDate)
  IN  [loop |-> loop.streak, lookups |-> loop.lookups,
       streak |-> IF kcal # Undef /\ kcal <= dailyGoal /\ kcal > 0
                  THEN loop.streak + 1 ELSE 0]

\* calculateStreak, lines 56-83: what it returns (streak), with the value
\* of streak after the loop and the dates the loop looked up
calculateStreak(dailyGoal) ==
  LET loop == streakLoop(1, 0, <<>>, dailyGoal)
      kcal == totalKcalOn(getLocalDate)
  IN  [loop |-> loop.streak, lookups |-> loop.lookups,
       streak |-> IF kcal # Undef /\ kcal <= dailyGoal /\ kcal > 0
                  THEN loop.streak + 1 ELSE loop.streak]

\* getWeeklyChartData, lines 103-129
getWeeklyChartData ==
  LET dayOfWeek == getDay(now)
      monday == addDays(now, (IF dayOfWeek = 0 THEN -6 ELSE 1) - dayOfWeek)
      chartData == [i \in 1..7 |->
                      LET dateStr == toISODate(addDays(monday, i - 1))
                          kcal == totalKcalOn(dateStr)
                      IN  [date |-> dateStr,
                           kcal |-> IF kcal = Undef THEN 0 ELSE kcal]]
  IN  [chartData |-> chartData, weeklyTotal |-> SumOf(chartData, "kcal")]

\* Config.findOne({ key: 'user_settings' }), then
\* config ? config.dailyGoal : 2000 (lines 141-142, 521-522, 570-571)
dailyGoalOf(cfg) ==
  IF \E i \in 1..Len(cfg) : cfg[i].key = "user_settings"
  THEN cfg[CHOOSE i \in 1..Len(cfg) :
             /\ cfg[i].key = "user_settings"
             /\ \A j \in 1..(i - 1) : cfg[j].key # "user_settings"].dailyGoal
  ELSE DailyGoal

\* Log.findOne({ date: dateStr }): the stored document, or NoView for null
findLog(dateStr) ==
  IF IndexOfDate(logs, dateStr) = 0 THEN NoView
  ELSE logs[IndexOfDate(logs, dateStr)]

\* showDashboard, lines 139-148: the reads of the dashboard
showDashboard(p) ==
  /\ view[p] = NoView
  /\ out' = [op |-> "showDashboard", today |-> getLocalDate,
             dailyGoal |-> dailyGoalOf(config),
             todayLog |-> findLog(getLocalDate),
             weekly |-> getWeeklyChartData,
             streak |-> calculateStreak(dailyGoalOf(config))]
  /\ mainAt(p, "menu")
  /\ UNCHANGED <<foods, logs, foodCache, view, today, lastOp, clock, config, issued>>

\* d.toLocaleDateString('en-CA'): the local calendar date of an instant
toLocaleDateString(t) == (t - getTimezoneOffset) \div DayMinutes

\* Log.find({ date: { $gte: startDate } }), line 306
findFrom(startDate) ==
  LET From(doc) == doc.date >= startDate
  IN  SelectSeq(logs, From)

\* logs.forEach(...) of lines 308-312: the value the Map holds for a date
\* of the week after every returned log was visited in order
RECURSIVE weekDataOf(_, _)
weekDataOf(found, dateString) ==
  IF found = <<>> THEN 0
  ELSE IF found[Len(found)].date = dateString THEN found[Len(found)].totalKcal
  ELSE weekDataOf(SubSeq(found, 1, Len(found) - 1), dateString)

\* Fault injected to test C23: a report that creates the log of a day of
\* the week that has none
weeklyReportFill ==
  LET weekDates == [k \in 1..7 |-> toLocaleDateString(addDays(now, k - 7))]
      Missing(d) == IndexOfDate(logs, d) = 0
      missing == SelectSeq(weekDates, Missing)
  IN  IF missing = <<>> THEN logs
      ELSE Append(logs, NewLog(Len(logs) + 1, missing[1]))

\* the writes of showWeeklyReport, lines 289-342: none
weeklyReportWrites == logs

\* showWeeklyReport, lines 289-319: the dates of the week, the value shown
\* for each, the two numbers of the summary (toFixed(0) of each) and the
\* number of logs the query returned
weeklyReport ==
  LET weekDates == [k \in 1..7 |-> toLocaleDateString(addDays(now, k - 7))]
      startDate == weekDates[1]
      found == findFrom(startDate)
      weeklyTotal == SumOf(found, "totalKcal")
  IN  [weekDates |-> weekDates,
       weekData |-> [k \in 1..7 |-> weekDataOf(found, weekDates[k])],
       weeklyTotal |-> weeklyTotal,
       weeklyAverage |-> IF Len(found) > 0 THEN Round(weeklyTotal, Len(found))
                         ELSE 0,
       found |-> Len(found)]

showWeeklyReport(p) ==
  /\ view[p] = NoView
  /\ out' = [op |-> "showWeeklyReport", report |-> weeklyReport]
  /\ logs' = weeklyReportWrites
  /\ handlerEnds(p, FALSE)
  /\ UNCHANGED <<foods, foodCache, view, today, lastOp, clock, config, issued>>

RECURSIVE sortByDateDesc(_)
\* .sort({ date: -1 }): the documents by falling date
sortByDateDesc(docs) ==
  IF docs = <<>> THEN <<>>
  ELSE LET i == CHOOSE i \in 1..Len(docs) :
                  /\ \A j \in 1..Len(docs) : docs[j].date <= docs[i].date
                  /\ \A j \in 1..(i - 1) : docs[j].date < docs[i].date
       IN  <<docs[i]>> \o sortByDateDesc(RemoveAt(docs, i))

\* viewHistory, lines 518-540: the days listed, newest first, with the goal
\* each is coloured against
viewHistory(p) ==
  /\ view[p] = NoView
  /\ out' = [op |-> "viewHistory",
             days |-> [k \in 1..Len(logs) |->
                         [date |-> sortByDateDesc(logs)[k].date,
                          totalKcal |-> sortByDateDesc(logs)[k].totalKcal]],
             dailyGoal |-> dailyGoalOf(config)]
  /\ handlerEnds(p, FALSE)
  /\ UNCHANGED <<foods, logs, foodCache, view, today, lastOp, clock, config, issued>>

\* the machine's time zone changes (the user travels, or the same store is
\* opened on a machine in another zone): the instant stays, the local date
\* and time of day that new Date() yields follow the new offset
setTimezone(tz) ==
  /\ tz # clock.tz
  /\ LET local == now + tz
     IN  /\ today' = local \div DayMinutes
         /\ clock' = [tz |-> tz, minute |-> local % DayMinutes]
  /\ UNCHANGED <<foods, logs, foodCache, view, lastOp, out, config, pc, issued>>

\* Config.findOneAndUpdate({ key: 'user_settings' }, { dailyGoal }), line
\* 514: no upsert option, so with no matching document nothing is written
configUpdate(cfg, newGoal) ==
  [i \in 1..Len(cfg) |->
     IF cfg[i].key = "user_settings"
          /\ \A j \in 1..(i - 1) : cfg[j].key # "user_settings"
     THEN [cfg[i] EXCEPT !.dailyGoal = newGoal]
     ELSE cfg[i]]

\* goals the user types at the prompt of setDailyGoal
Goals == {1500, 2500}

\* setDailyGoal, lines 501-516, with an input the prompt accepts; when the
\* update does not reject it prints "Goal updated to ..." (res "ok")
setDailyGoal(p, newGoal, ok) ==
  /\ view[p] = NoView
  /\ newGoal > 0
  /\ config' = IF ok THEN configUpdate(config, newGoal) ELSE config
  /\ lastOp' = [op |-> "setDailyGoal", res |-> IF ok THEN "ok" ELSE "StoreError"]
  /\ handlerEnds(p, ~ok)
  /\ issued' = 1
  /\ UNCHANGED <<foods, logs, foodCache, view, today, clock, out>>

\* ------------------------------------------------- process start and loop
\* seedDatabase, src/db.js 20-27: the seed foods whose name is not stored
seedFoodsInto(fs) ==
  LET New(f) == ~NameTaken(fs, f.name, 0)
  IN  fs \o SelectSeq(SeedFoods, New)

\* seedDatabase, src/db.js 34-41: the default settings, if there are none
seedConfigInto(cfg) ==
  IF \E i \in 1..Len(cfg) : cfg[i].key = "user_settings" THEN cfg
  ELSE cfg \o SeededConfig

\* how seedDatabase ends: every call answered, a call on the foods
\* collection rejected, a call on the configs collection rejected (the
\* catch of lines 43-45 logs the error and returns)
SeedOutcomes == {"ok", "foods", "config"}

\* connectDB, src/db.js 6-15: mongoose.connect rejects and the process
\* exits with status 1, or it resolves and seedDatabase runs
connectDB(connected, seed) ==
  /\ pc = "connectDB"
  /\ IF connected
     THEN /\ foods' = IF seed = "foods" THEN foods ELSE seedFoodsInto(foods)
          /\ config' = IF seed = "ok" THEN seedConfigInto(config) ELSE config
          /\ pc' = "loadFoodCache"
     ELSE /\ UNCHANGED <<foods, config>>
          /\ pc' = "exit"
  /\ lastOp' = [op |-> "connectDB", res |-> IF connected THEN "ok" ELSE "StoreError"]
  /\ UNCHANGED <<logs, foodCache, view, today, clock, out, issued>>

\* loadFoodCache, lines 31-39: Food.find({}) fills the cache, or rejects,
\* the catch logs the error and main goes on with the cache as it is
loadFoodCache(ok) ==
  /\ pc = "loadFoodCache"
  /\ foodCache' = [foodCache EXCEPT ![1] = IF ok THEN foods ELSE @]
  /\ lastOp' = [op |-> "loadFoodCache", res |-> IF ok THEN "ok" ELSE "StoreError"]
  /\ pc' = "showDashboard"
  /\ UNCHANGED <<foods, logs, view, today, clock, out, config, issued>>

\* a read of showDashboard (lines 141-148) or of the page showDashboard
\* awaits (lines 306, 520-521, 561, 570) rejects: nothing in the call chain
\* catches it before the catch of main
readRejects ==
  /\ pc \in {"showDashboard", "menu"}
  /\ pc' = "catch"
  /\ view' = [view EXCEPT ![1] = NoView]
  /\ UNCHANGED <<foods, logs, foodCache, today, lastOp, clock, out, config, issued>>

\* Fault injected to test C26: the catch of the loop ends the process
mainCatchExit ==
  /\ pc = "catch"
  /\ out' = [op |-> "mainCatch"]
  /\ view' = [view EXCEPT ![1] = NoView]
  /\ pc' = "exit"
  /\ UNCHANGED <<foods, logs, foodCache, today, lastOp, clock, config, issued>>

\* the catch of the loop, lines 45-48: console.error, then the timer is set
mainCatch ==
  /\ pc = "catch"
  /\ out' = [op |-> "mainCatch"]
  /\ view' = [view EXCEPT ![1] = NoView]
  /\ pc' = "delay"
  /\ UNCHANGED <<foods, logs, foodCache, today, lastOp, clock, config, issued>>

\* line 48: the timer of 2000 ms fires, the loop calls showDashboard again
timerFires ==
  /\ pc = "delay"
  /\ pc' = "showDashboard"
  /\ UNCHANGED <<foods, logs, foodCache, view, today, lastOp, clock, out, config,
                 issued>>

\* case 'exit', lines 283-285: disconnectDB, process.exit(0)
exit ==
  /\ pc = "menu"
  /\ view[1] = NoView
  /\ pc' = "exit"
  /\ UNCHANGED <<foods, logs, foodCache, view, today, lastOp, clock, out, config,
                 issued>>

\* midnight passes: getLocalDate() returns the next day
Tick ==
  /\ today < MaxDay
  /\ today' = today + 1
  /\ UNCHANGED <<foods, logs, foodCache, view, lastOp, clock, config, pc, issued, out>>

\* -------------------------------------------------------- specifications
\* what the user types and whether the store answers, per specification
AnyInput == [names |-> Names, kcals |-> Kcals, oks |-> BOOLEAN]
StoreUp  == [names |-> Names, kcals |-> Kcals, oks |-> {TRUE}]

\* the handlers of the food management menu, and process start
CatalogStep(p, in) ==
  \/ main(p)
  \/ \E n \in in.names, k \in in.kcals, c \in EditCategories, ok \in in.oks :
       addFood(p, n, k, c, ok)
  \/ \E i \in 1..MaxFoods, n \in in.names, k \in in.kcals, c \in EditCategories,
        ok \in in.oks :
       editFood(p, i, n, k, c, ok)
  \/ \E i \in 1..MaxFoods, ok \in in.oks : deleteFood(p, i, ok)

\* "Add Meal" of the dashboard with a food of the search results
PickStep(p, in) ==
  \E i \in 1..MaxFoods, t \in Times, s \in Slots, ok \in in.oks :
    addMeal(p, i, t, s, ok)

\* "Add Meal" of the dashboard with "Create New Food"
CreateStep(p, in) ==
  \E n \in in.names, k \in in.kcals, c \in EditCategories, t \in Times,
     s \in Slots, okSave \in in.oks, okLog \in in.oks :
    addMealCreateNew(p, n, k, c, t, s, okSave, okLog)

\* the day detail page of the history view
DetailStep(p, in) ==
  \/ \E d \in 1..MaxDay : showDayDetail(p, d)
  \/ back(p)
  \/ \E id \in EntryIdsOf(view[p]), n \in in.names, k \in in.kcals,
        c \in EditCategories, ok \in in.oks :
       editEntry(p, id, n, k, c, ok)
  \/ \E id \in EntryIdsOf(view[p]), ok \in in.oks : deleteEntry(p, id, ok)

\* the single interactive process, every handler
Next ==
  \/ CatalogStep(1, AnyInput)
  \/ PickStep(1, AnyInput)
  \/ CreateStep(1, AnyInput)
  \/ DetailStep(1, AnyInput)
  \/ Tick

Spec == Init /\ [][Next]_vars

\* A session in which the seeded food already went through editFood: the
\* store holds its name and kcal, and the cache of each process that made the
\* edit holds the estimated macros as well.
InitLedger ==
  \E k \in Kcals, who \in SUBSET Procs :
    LET m == estimateMacros(k, "mixed")
        stored == foodUpdateOne(SeedFoods, 1, "Apple", k, m, "mixed")
    IN  /\ foods = stored
        /\ foodCache = [p \in Procs |->
                          IF p \in who
                          THEN <<cacheAssign(stored[1], "Apple", k, m, "mixed")>>
                          ELSE stored]
        /\ logs = <<>>
        /\ view = [p \in Procs |-> NoView]
        /\ today = 1
        /\ lastOp = [op |-> "main", res |-> "ok"]
        /\ clock = UtcNoon
        /\ Running
        /\ out = NoOut

\* the ledger handlers of the single interactive process
NextLedger == PickStep(1, AnyInput) \/ DetailStep(1, AnyInput) \/ Tick

SpecLedger == InitLedger /\ [][NextLedger]_vars

\* the catalog handlers of the single interactive process
NextCatalog == CatalogStep(1, AnyInput)

SpecCatalog == Init /\ [][NextCatalog]_vars

\* logging meals and managing the catalog, single interactive process
NextSnapshot ==
  CatalogStep(1, StoreUp) \/ PickStep(1, StoreUp) \/ CreateStep(1, StoreUp)

SpecSnapshot == Init /\ [][NextSnapshot]_vars

\* two processes on one store, each logging meals
NextTwoLog == (\E p \in Procs : PickStep(p, AnyInput)) \/ Tick

SpecTwoLog == InitLedger /\ [][NextTwoLog]_vars

\* what the user types at the name and calories prompts: also nothing at
\* all, and a negative number
TypedNames == {"Rice", ""}
TypedKcals == {200, 0, -5}

\* the single interactive process with the prompts of learn, update and
\* editEntry, store reachable
NextInput ==
  \/ \E n \in TypedNames, k \in TypedKcals, c \in EditCategories :
       addFoodPrompt(1, n, k, c, TRUE)
  \/ \E i \in 1..MaxFoods, n \in TypedNames, k \in TypedKcals, c \in EditCategories :
       editFoodPrompt(1, i, n, k, c, TRUE)
  \/ PickStep(1, StoreUp)
  \/ \E d \in 1..MaxDay : showDayDetail(1, d)
  \/ back(1)
  \/ \E id \in EntryIdsOf(view[1]), n \in TypedNames, k \in TypedKcals,
        c \in EditCategories :
       editEntryPrompt(1, id, n, k, c, TRUE)

SpecInput == Init /\ [][NextInput]_vars

\* the category arguments of estimateMacros: the keys of the table, no
\* argument (undefined), and a string the table lacks
CategoryArgs == Categories \cup {NoCategory, "snack"}

\* the macro estimator on every total up to MaxKcal and every category argument
InitEstimate ==
  /\ foods = SeedFoods
  /\ logs = <<>>
  /\ foodCache = [p \in Procs |-> SeedFoods]
  /\ view = [p \in Procs |-> NoView]
  /\ today = 1
  /\ lastOp = [op |-> "main", res |-> "ok"]
  /\ clock = UtcNoon
  /\ Running
  /\ \E k \in 0..MaxKcal, c \in CategoryArgs :
       out = [op |-> "arguments", kcal |-> k, category |-> c]

NextEstimate == estimateCall \/ caloriesCall

SpecEstimate == InitEstimate /\ [][NextEstimate]_vars

\* The dashboard over a recorded history. The days of the history are today
\* and the three days before it; a day has no log, a log whose entries were
\* all deleted, or a log of one meal under or over the goal. The process
\* runs west of UTC, in UTC or east of UTC, in the small hours, at noon or
\* late in the evening, on a Sunday or a Wednesday.
HistoryTotals == {Undef, 0, 1800, 2100}
Zones == {-300, 0, 420}
Minutes == {180, 720, 1320}
Todays == {10, 13}

HistoryLog(id, date, total) ==
  [id |-> id, date |-> date,
   entries |-> IF total = 0 THEN <<>>
               ELSE <<[id |-> id, name |-> "Rice", kcal |-> total, protein |-> 0,
                       carbs |-> 0, fat |-> 0, time |-> "08:30",
                       timeSlot |-> "Morning"]>>,
   totalKcal |-> total, totalProtein |-> 0, totalCarbs |-> 0, totalFat |-> 0]

\* the logs collection holding the totals h[1..4] of the days d-3 .. d
HistoryLogs(h, d) ==
  LET Logged(i) == h[i] # Undef
      days == SelectSeq(<<1, 2, 3, 4>>, Logged)
  IN  [k \in 1..Len(days) |-> HistoryLog(k, d - 4 + days[k], h[days[k]])]

InitStats ==
  /\ foods = SeedFoods
  /\ foodCache = [p \in Procs |-> SeedFoods]
  /\ view = [p \in Procs |-> NoView]
  /\ lastOp = [op |-> "main", res |-> "ok"]
  /\ out = NoOut
  /\ today \in Todays
  /\ \E z \in Zones, m \in Minutes : clock = [tz |-> z, minute |-> m]
  /\ Running
  /\ \E h \in [1..4 -> HistoryTotals] : logs = HistoryLogs(h, today)

NextStats == showDashboard(1)

SpecStats == InitStats /\ [][NextStats]_vars

\* The weekly report and the dashboard over a history: a log for the day a
\* week ago, for the first day of the report's week and for today, each
\* missing, emptied by deletions, or holding one meal; any weekday; the zone
\* of the machine changes between two looks at the report.
ReportTotals == {Undef, 0, 1800}
ReportDays == 10..16
ReportMinutes == {180, 1320}

\* the logs collection holding the totals h[1..3] of the days d-7, d-6 and d
ReportLogs(h, d) ==
  LET Logged(i) == h[i] # Undef
      days == SelectSeq(<<1, 2, 3>>, Logged)
      date == <<d - 7, d - 6, d>>
  IN  [k \in 1..Len(days) |-> HistoryLog(k, date[days[k]], h[days[k]])]

InitReport ==
  /\ foods = SeedFoods
  /\ foodCache = [p \in Procs |-> SeedFoods]
  /\ view = [p \in Procs |-> NoView]
  /\ lastOp = [op |-> "main", res |-> "ok"]
  /\ out = NoOut
  /\ today \in ReportDays
  /\ \E z \in Zones, m \in ReportMinutes : clock = [tz |-> z, minute |-> m]
  /\ Running
  /\ \E h \in [1..3 -> ReportTotals] : logs = ReportLogs(h, today)

NextReport ==
  \/ showDashboard(1)
  \/ showWeeklyReport(1)
  \/ viewHistory(1)
  \/ \E z \in Zones : setTimezone(z)

SpecReport == InitReport /\ [][NextReport]_vars

\* the views of the dashboard menu, all of them, between meals being
\* logged, the goal being set and midnights passing
ReadStep(p) ==
  \/ showDashboard(p)
  \/ showWeeklyReport(p)
  \/ viewHistory(p)
  \/ \E d \in 1..MaxDay : showDayDetail(p, d)

NextReads ==
  \/ ReadStep(1)
  \/ back(1)
  \/ PickStep(1, StoreUp)
  \/ \E g \in Goals : setDailyGoal(1, g, TRUE)
  \/ Tick

SpecReads == Init /\ [][NextReads]_vars

\* The process from its start: an empty database or one seeded before,
\* connectDB, loadFoodCache and the loop of main with the handlers of the
\* dashboard menu; every call on the store is answered or rejected.
MainInput == [names |-> {"Rice"}, kcals |-> {200}, oks |-> BOOLEAN]

InitMain ==
  /\ foods \in {<<>>, SeedFoods}
  /\ config \in {<<>>, SeededConfig}
  /\ logs = <<>>
  /\ foodCache = [p \in Procs |-> <<>>]
  /\ view = [p \in Procs |-> NoView]
  /\ today = 1
  /\ lastOp = [op |-> "main", res |-> "ok"]
  /\ clock = UtcNoon
  /\ out = NoOut
  /\ pc = "connectDB"
  /\ issued = 0

\* the handlers a choice of the dashboard menu leads to
MenuStep ==
  \/ PickStep(1, MainInput)
  \/ \E g \in Goals, ok \in BOOLEAN : setDailyGoal(1, g, ok)
  \/ showWeeklyReport(1)
  \/ viewHistory(1)
  \/ DetailStep(1, MainInput)
  \/ \E n \in MainInput.names, k \in MainInput.kcals, c \in EditCategories,
        ok \in BOOLEAN :
       addFood(1, n, k, c, ok)
  \/ \E i \in 1..MaxFoods, n \in MainInput.names, k \in MainInput.kcals,
        c \in EditCategories, ok \in BOOLEAN :
       editFood(1, i, n, k, c, ok)
  \/ \E i \in 1..MaxFoods, ok \in BOOLEAN : deleteFood(1, i, ok)
  \/ exit

NextMain ==
  \/ \E connected \in BOOLEAN, seed \in SeedOutcomes : connectDB(connected, seed)
  \/ \E ok \in BOOLEAN : loadFoodCache(ok)
  \/ pc = "showDashboard" /\ showDashboard(1)
  \/ pc = "menu" /\ MenuStep
  \/ readRejects
  \/ mainCatch
  \/ timerFires

SpecMain == InitMain /\ [][NextMain]_vars

\* The loop of main after startup, with a handler whose rejected write
\* reaches the catch of main (addMeal, setDailyGoal), one that catches it
\* itself (addFood) and the reads.
NextLoop ==
  \/ pc = "showDashboard" /\ showDashboard(1)
  \/ pc = "menu" /\ PickStep(1, MainInput)
  \/ pc = "menu" /\ \E g \in Goals, ok \in BOOLEAN : setDailyGoal(1, g, ok)
  \/ pc = "menu" /\ \E n \in MainInput.names, k \in MainInput.kcals,
                       c \in EditCategories, ok \in BOOLEAN :
                      addFood(1, n, k, c, ok)
  \/ pc = "menu" /\ showWeeklyReport(1)
  \/ pc = "menu" /\ exit
  \/ readRejects
  \/ mainCatch
  \/ timerFires

SpecLoop == Init /\ [][NextLoop]_vars

\* the loop of main runs on: the catch block is left for the timer, the
\* timer fires, and the store answers the reads of showDashboard again at
\* some time (a store that stays down keeps the loop between the rejected
\* reads and the timer)
FairLoop ==
  /\ SpecLoop
  /\ WF_vars(mainCatch)
  /\ WF_vars(timerFires)
  /\ SF_vars(pc = "showDashboard" /\ showDashboard(1))

\* Meals logged at the first and the last minute of every hour of the
\* day, west of UTC, in UTC and east of UTC, with every choice of the slot
\* prompt.
SlotMinutes == {h * 60 + m : h \in 0..23, m \in {0, 59}}

InitSlot ==
  /\ foods = SeedFoods
  /\ logs = <<>>
  /\ foodCache = [p \in Procs |-> SeedFoods]
  /\ view = [p \in Procs |-> NoView]
  /\ today = 1
  /\ lastOp = [op |-> "main", res |-> "ok"]
  /\ \E z \in Zones, m \in SlotMinutes : clock = [tz |-> z, minute |-> m]
  /\ out = NoOut
  /\ Running

NextSlot ==
  \E i \in 1..MaxFoods, t \in Times, s \in SlotChoices, ok \in BOOLEAN :
    addMealSlot(1, i, t, s, ok)

SpecSlot == InitSlot /\ [][NextSlot]_vars

\* the four totals of a Log document against its entries
TotalsMatch(doc) ==
  /\ doc.totalKcal = SumOf(doc.entries, "kcal")
  /\ doc.totalProtein = SumOf(doc.entries, "protein")
  /\ doc.totalCarbs = SumOf(doc.entries, "carbs")
  /\ doc.totalFat = SumOf(doc.entries, "fat")

Consistent == \A k \in 1..Len(logs) : TotalsMatch(logs[k])

\* Two processes on one store, each logging meals and editing a day (the
\* edits keep the entry's name). A run is followed until the totals of a day
\* first differ from the sums of its entries (from there on the totals can
\* drift without bound).
NextTwo ==
  \E p \in Procs :
    \/ \E i \in 1..MaxFoods, t \in Times, s \in Slots :
         Consistent /\ addMeal(p, i, t, s, TRUE)
    \/ \E d \in 1..MaxDay : Consistent /\ showDayDetail(p, d)
    \/ Consistent /\ back(p)
    \/ \E id \in EntryIdsOf(view[p]), k \in Kcals, c \in EditCategories :
         Consistent /\ editEntry(p, id, "Apple", k, c, TRUE)
    \/ \E id \in EntryIdsOf(view[p]) : Consistent /\ deleteEntry(p, id, TRUE)

SpecTwo == Init /\ [][NextTwo]_vars

\* ================================================================= claims
LastOk(op) == lastOp = [op |-> op, res |-> "ok"]

\* index in the logs collection of the document with that _id, 0 if none
IndexOfLog(lg, id) == IndexOfId(lg, id)


C3_EditDelta ==
  [][\A id \in EntryIdsOf(view[1]), n \in Names, b \in Kcals, c \in EditCategories :
       editEntry(1, id, n, b, c, TRUE) =>
         LET k   == IndexOfLog(logs, view[1].id)
             old == logs[k].entries[IndexOfId(logs[k].entries, id)]
             new == logs'[k].entries[IndexOfId(logs'[k].entries, id)]
             m   == estimateMacros(b, c)
         IN  /\ new.kcal = b
             /\ logs'[k].totalKcal - logs[k].totalKcal = b - old.kcal
             /\ logs'[k].totalProtein - logs[k].totalProtein = m.protein - old.protein
             /\ logs'[k].totalCarbs - logs[k].totalCarbs = m.carbs - old.carbs
             /\ logs'[k].totalFat - logs[k].totalFat = m.fat - old.fat]_vars

\* an edit has just run on a day with another entry of a different kcal
C3_Witness ==
  /\ LastOk("editEntry")
  /\ \E k \in 1..Len(logs) :
       /\ Len(logs[k].entries) = 2
       /\ logs[k].entries[1].kcal # logs[k].entries[2].kcal
       /\ logs[k].entries[1].protein > 0
       /\ logs[k].entries[2].protein > 0

\* ------------------------------------------------------------------- C4
UniqueDates ==
  \A j, k \in 1..Len(logs) : logs[j].date = logs[k].date => j = k

\* the totals of doc are those of base plus the values of entry e
TotalsPlus(doc, base, e) ==
  /\ doc.totalKcal = base.totalKcal + e.kcal
  /\ doc.totalProtein = base.totalProtein + e.protein
  /\ doc.totalCarbs = base.totalCarbs + e.carbs
  /\ doc.totalFat = base.totalFat + e.fat

\* C4: logMeal on a day with no DailyLog creates exactly one DailyLog for
\* today's local date whose only entry is the new one and whose four totals
\* equal that entry's values; on a day that has a DailyLog it appends the new
\* entry after all existing entries and adds its four values to the totals;
\* there is never more than one DailyLog per date.
C4_LogMeal ==
  /\ []UniqueDates
  /\ [][\A i \in 1..MaxFoods, t \in Times, s \in Slots :
          addMeal(1, i, t, s, TRUE) =>
            LET k == IndexOfDate(logs, today)
                n == Len(logs)
            IN  IF k = 0
                THEN /\ Len(logs') = n + 1
                     /\ SubSeq(logs', 1, n) = logs
                     /\ logs'[n + 1].date = today
                     /\ Len(logs'[n + 1].entries) = 1
                     /\ logs'[n + 1].entries[1].name = foodCache[1][i].name
                     /\ logs'[n + 1].entries[1].kcal = foodCache[1][i].kcal
                     /\ TotalsPlus(logs'[n + 1], NewLog(0, today), logs'[n + 1].entries[1])
                ELSE /\ Len(logs') = n
                     /\ \A j \in 1..n : j # k => logs'[j] = logs[j]
                     /\ Len(logs'[k].entries) = Len(logs[k].entries) + 1
                     /\ SubSeq(logs'[k].entries, 1, Len(logs[k].entries)) = logs[k].entries
                     /\ logs'[k].entries[Len(logs'[k].entries)].name = foodCache[1][i].name
                     /\ logs'[k].entries[Len(logs'[k].entries)].kcal = foodCache[1][i].kcal
                     /\ TotalsPlus(logs'[k], logs[k],
                                   logs'[k].entries[Len(logs'[k].entries)])]_vars

\* a meal has just been appended to today's DailyLog, which already had one,
\* and an earlier day has its own DailyLog
C4_Witness ==
  /\ LastOk("addMeal")
  /\ Len(logs) = 2
  /\ IndexOfDate(logs, today) # 0
  /\ Len(logs[IndexOfDate(logs, today)].entries) >= 1

\* ------------------------------------------------------------------- C2
\* what editEntry and deleteEntry report: nothing but a store failure makes
\* them fail, the result of updateOne is not looked at
entryUpdateResult(ok) == IF ok THEN "ok" ELSE "StoreError"

\* the ids of the entries the store holds in the document with that _id
StoredEntryIds(logId) ==
  IF IndexOfLog(logs, logId) = 0 THEN {}
  ELSE EntryIdsOf(logs[IndexOfLog(logs, logId)])

\* C2: editEntry or deleteEntry applied to an entry id that is no longer
\* among the stored entries of that day when the update reaches the store
\* fails with EntryNotFound and leaves the day's entries and its four totals
\* unchanged.
C2_StaleEntryRejected ==
  [][\A p \in Procs : \A id \in EntryIdsOf(view[p]) :
       /\ (\A n \in Names, k \in Kcals, c \in EditCategories :
             editEntry(p, id, n, k, c, TRUE) /\ id \notin StoredEntryIds(view[p].id)
               => entryUpdateResult(TRUE) = "EntryNotFound" /\ logs' = logs)
       /\ (deleteEntry(p, id, TRUE) /\ id \notin StoredEntryIds(view[p].id)
             => entryUpdateResult(TRUE) = "EntryNotFound" /\ logs' = logs)]_vars

\* ------------------------------------------------------------------- C5
\* C5: two logMeal operations against the same day issued by two processes
\* leave, in every interleaving, both entries in that day's entry list and
\* each total equal to the sum over all entries: every logMeal keeps the
\* entries already stored, whoever stored them, and adds one.
C5_NoLostUpdate ==
  /\ []Consistent
  /\ []UniqueDates
  /\ [][\A p \in Procs, i \in 1..MaxFoods, t \in Times, s \in Slots :
          addMeal(p, i, t, s, TRUE) =>
            /\ CountEntries(logs') = CountEntries(logs) + 1
            /\ \A k \in 1..Len(logs) :
                 /\ logs'[k].date = logs[k].date
                 /\ SubSeq(logs'[k].entries, 1, Len(logs[k].entries)) = logs[k].entries]_vars

\* one day holds a meal logged by the process whose cache has no macros
\* followed by one logged by the process whose cache has them
C5_Witness ==
  \E k \in 1..Len(logs) :
    /\ Len(logs[k].entries) = 2
    /\ logs[k].entries[1].protein = 0
    /\ logs[k].entries[2].protein > 0
    /\ logs[k].totalKcal = logs[k].entries[1].kcal + logs[k].entries[2].kcal

C7_SnapshotKept ==
  [][(\/ \E i \in 1..MaxFoods, n \in Names, k \in Kcals, c \in EditCategories :
          editFood(1, i, n, k, c, TRUE)
      \/ \E i \in 1..MaxFoods : deleteFood(1, i, TRUE))
       => logs' = logs]_vars

\* a catalog food has just been updated or removed after it was logged: no
\* cached food has the name and kcal of some entry (in this specification
\* entries are only ever written by logMeal)
C7_Witness ==
  /\ LastOk("editFood") \/ LastOk("deleteFood")
  /\ \E k \in 1..Len(logs) : \E j \in 1..Len(logs[k].entries) :
       /\ logs[k].totalKcal >= logs[k].entries[j].kcal
       /\ \A f \in 1..Len(foodCache[1]) :
            \/ foodCache[1][f].name # logs[k].entries[j].name
            \/ foodCache[1][f].kcal # logs[k].entries[j].kcal

\* ------------------------------------------------------------------- C8
CatalogOps == {"createNewFood", "editFood", "deleteFood"}

\* C8: after any successful learn, update or remove returns, the food cache
\* holds for that item exactly the field values (name, kcal, protein, carbs,
\* fat, category) the foods collection holds, and no item the store lacks.
C8_CacheMatchesStore ==
  (lastOp.op \in CatalogOps /\ lastOp.res = "ok") =>
    \A i \in 1..Len(foodCache[1]) :
      \E j \in 1..Len(foods) : foods[j] = foodCache[1][i]

\* ------------------------------------------------------------------- C9
\* C9: learn(name, kcal, category) persists and returns a food whose protein,
\* carbs and fat equal estimate(kcal, category) and whose category is the
\* given one, so that a logMeal of the returned item writes a LogEntry with
\* those macro values.
C9_LearnKeepsMacros ==
  [][\A n \in Names, k \in Kcals, c \in EditCategories, t \in Times, s \in Slots :
       (addMealCreateNew(1, n, k, c, t, s, TRUE, TRUE) /\ saveResult(n, TRUE) = "ok") =>
         LET m     == estimateMacros(k, c)
             saved == foods'[Len(foods')]
             day   == logs'[IndexOfDate(logs', today)]
             entry == day.entries[Len(day.entries)]
         IN  /\ saved.name = n /\ saved.kcal = k /\ saved.category = c
             /\ saved.protein = m.protein /\ saved.carbs = m.carbs
             /\ saved.fat = m.fat
             /\ entry.name = n /\ entry.kcal = k
             /\ entry.protein = m.protein /\ entry.carbs = m.carbs
             /\ entry.fat = m.fat]_vars

\* ------------------------------------------------------------------ C10
\* C10: in learn, update and remove the cache is modified only after the
\* persistence write has succeeded; when the write fails (duplicate name or
\* any other store error) the cache content and order are what they were.
C10_CacheFollowsStore ==
  [][/\ \A n \in Names, k \in Kcals, c \in EditCategories, ok \in BOOLEAN :
          (addFood(1, n, k, c, ok) /\ saveResult(n, ok) # "ok")
            => foodCache' = foodCache
     /\ \A i \in 1..MaxFoods, n \in Names, k \in Kcals, c \in EditCategories,
           ok \in BOOLEAN :
          (editFood(1, i, n, k, c, ok) /\ updateResult(foodCache[1][i].id, n, ok) # "ok")
            => foodCache' = foodCache
     /\ \A i \in 1..MaxFoods : deleteFood(1, i, FALSE) => foodCache' = foodCache
     /\ (foodCache' # foodCache => lastOp'.res = "ok")]_vars

\* a learn has just been rejected as a duplicate while the cache holds the
\* two foods of the store, in the store's order
C10_Witness ==
  /\ lastOp = [op |-> "createNewFood", res |-> "DuplicateName"]
  /\ Len(foodCache[1]) = 2
  /\ foodCache[1] = foods

\* ------------------------------------------------------------------ C11
\* the foods of a sequence that carry a name
WithName(fs, name) == {j \in 1..Len(fs) : fs[j].name = name}

\* C11: learn with a name that an existing catalog food already has fails
\* with DuplicateName, and afterwards the store and the cache each hold
\* exactly one food of that name, with the kcal it had before.
C11_DuplicateLearn ==
  [][\A n \in Names, k \in Kcals, c \in EditCategories :
       (addFood(1, n, k, c, TRUE) /\ NameTaken(foods, n, 0)) =>
         /\ lastOp' = [op |-> "createNewFood", res |-> "DuplicateName"]
         /\ Cardinality(WithName(foods', n)) = 1
         /\ Cardinality(WithName(foodCache'[1], n)) = 1
         /\ \A j \in WithName(foods', n) : foods'[j] = foods[j]
         /\ \A j \in WithName(foodCache'[1], n) : foodCache'[1][j] = foodCache[1][j]]_vars

\* a second learn of the only food of the catalog has just been rejected
C11_Witness ==
  /\ lastOp = [op |-> "createNewFood", res |-> "DuplicateName"]
  /\ Len(foods) = 1
  /\ Len(foodCache[1]) = 1

\* ------------------------------------------------------------------ C12
\* C12: update of a food fails with DuplicateName when newName is the name of
\* a different catalog food, and succeeds when newName is the edited food's
\* own current name; in the failing case the cached item keeps all its old
\* field values.
C12_DuplicateUpdate ==
  [][\A i \in 1..MaxFoods, n \in Names, k \in Kcals, c \in EditCategories :
       editFood(1, i, n, k, c, TRUE) =>
         LET foodToEdit == foodCache[1][i]
         IN  /\ (n # foodToEdit.name /\ NameTaken(foods, n, foodToEdit.id)) =>
                  /\ lastOp' = [op |-> "editFood", res |-> "DuplicateName"]
                  /\ foodCache' = foodCache
                  /\ foods' = foods
             /\ n = foodToEdit.name =>
                  /\ lastOp' = [op |-> "editFood", res |-> "ok"]
                  /\ foodCache'[1][i].name = n /\ foodCache'[1][i].kcal = k
                  /\ \E j \in 1..Len(foods') :
                       /\ foods'[j].id = foodToEdit.id
                       /\ foods'[j].name = n /\ foods'[j].kcal = k]_vars

\* an update that renames a food to the name of the other food of the
\* catalog has just been rejected
C12_Witness ==
  /\ lastOp = [op |-> "editFood", res |-> "DuplicateName"]
  /\ Len(foods) = 2
  /\ Len(foodCache[1]) = 2

\* ------------------------------------------------------------------ C13
\* every stored food and every stored entry has kcal >= 0 and a name
StoredValid ==
  /\ \A j \in 1..Len(foods) : foods[j].kcal >= 0 /\ foods[j].name # ""
  /\ \A k \in 1..Len(logs) : \A j \in 1..Len(logs[k].entries) :
       logs[k].entries[j].kcal >= 0 /\ logs[k].entries[j].name # ""

\* C13: learn, update and editEntry issue no persistence write with a
\* negative kcal or an empty name (no step of theirs follows such input), so
\* every stored FoodItem and LogEntry has kcal >= 0 and a non-empty name.
C13_InputValidated ==
  /\ []StoredValid
  /\ [][/\ \A n \in TypedNames, k \in TypedKcals, c \in EditCategories :
             (k < 0 \/ n = "") => ~addFoodPrompt(1, n, k, c, TRUE)
        /\ \A i \in 1..MaxFoods, n \in TypedNames, k \in TypedKcals,
              c \in EditCategories :
             editFoodPrompt(1, i, n, k, c, TRUE) =>
               /\ k >= 0
               /\ \A j \in 1..Len(foods') : foods'[j].name # ""
        /\ \A id \in EntryIdsOf(view[1]), n \in TypedNames, k \in TypedKcals,
              c \in EditCategories :
             editEntryPrompt(1, id, n, k, c, TRUE) =>
               /\ k >= 0
               /\ \A d \in 1..Len(logs') : \A j \in 1..Len(logs'[d].entries) :
                    logs'[d].entries[j].name # ""]_vars

\* an entry has been edited with nothing typed at the name prompt and 0 at
\* the calories prompt, and a food has been learned
C13_Witness ==
  /\ lastOp = [op |-> "editEntry", res |-> "ok"]
  /\ Len(foods) = 2
  /\ \E k \in 1..Len(logs) : \E j \in 1..Len(logs[k].entries) :
       logs[k].entries[j].kcal = 0 /\ logs[k].entries[j].name = "Apple"

\* ------------------------------------------------------------------ C14
\* g is a nearest integer to kcal * pct / (100 * d)
Nearest(g, kcal, pct, d) ==
  /\ 2 * (100 * d * g - kcal * pct) <= 100 * d
  /\ 2 * (kcal * pct - 100 * d * g) <= 100 * d

C15_UnknownCategory ==
  (out.op = "estimateMacros" /\ out.category \notin Categories) =>
    out.result = estimateMacros(out.kcal, "mixed")

\* ------------------------------------------------------------------ C16
\* C16: for every category and every total K >= 0,
\* caloriesFromMacros(estimate(K, category)) differs from K by at most 9 kcal.
C16_RoundTripDrift ==
  out.op = "calculateCaloriesFromMacros" =>
    /\ out.result - out.kcal <= 9
    /\ out.kcal - out.result <= 9

\* ------------------------------------------------------------- C17 - C19
\* a day counts toward the streak: it has a log with 0 < totalKcal <= goal
Qualifies(date) ==
  /\ totalKcalOn(date) # Undef
  /\ totalKcalOn(date) > 0
  /\ totalKcalOn(date) <= DailyGoal

RECURSIVE RunBack(_, _)
\* the number of consecutive qualifying days date, date - 1, ..., at most n
RunBack(date, n) ==
  IF n = 0 \/ ~Qualifies(date) THEN 0 ELSE 1 + RunBack(date - 1, n - 1)

\* C17: streak(dailyGoal) counts the consecutive days going backward from
\* yesterday whose log has 0 < totalKcal <= dailyGoal and stops at the first
\* day with no log, a zero total or a total over the goal, without counting
\* that day or any earlier day; with yesterday at 1800 and the day before at
\* 2100 for a goal of 2000 the historical part of the streak is 1.
C17_StreakScan ==
  out.op = "showDashboard" =>
    /\ out.streak.loop = RunBack(today - 1, ScanLimit - 1)
    /\ (totalKcalOn(today - 1) = 1800 /\ totalKcalOn(today - 2) = 2100) =>
         out.streak.loop = 1

\* C18: for every timezone offset and every time of day, the first day
\* calculateStreak looks up is the local calendar date of yesterday (the key
\* under which logMeal stored yesterday's meals), and each further step
\* looks up the local date one day earlier.
C18_StreakDates ==
  out.op = "showDashboard" =>
    /\ getLocalDate = today
    /\ Len(out.streak.lookups) >= 1
    /\ \A i \in 1..Len(out.streak.lookups) : out.streak.lookups[i] = today - i

\* C19: today's log adds exactly 1 to the streak when it exists with
\* 0 < totalKcal <= dailyGoal and adds 0 otherwise; a missing, zero or
\* over-goal log for today never reduces the count of the days before today.
C19_TodayPart ==
  out.op = "showDashboard" =>
    /\ out.streak.streak = out.streak.loop + (IF Qualifies(today) THEN 1 ELSE 0)
    /\ out.streak.streak >= out.streak.loop

\* the dashboard has counted days before today while today's log is over
\* the goal
C19_Witness ==
  /\ out.op = "showDashboard"
  /\ out.streak.loop >= 1
  /\ totalKcalOn(today) = 2100
  /\ out.streak.streak = out.streak.loop

\* ------------------------------------------------------------------ C20
\* the local date of the Monday of the week (Monday .. Sunday) holding date
MondayOf(date) == date - ((date + 4 + 6) % 7)

\* C20: for every timezone offset and every time of day, weeklySeries
\* returns exactly 7 points whose date keys are the local calendar dates of
\* Monday through Sunday of the week containing today (so today's logMeal
\* key is one of them), each with the totalKcal stored under that key or 0
\* when no log exists, and its weekly total equals the sum of the 7 values.
C20_WeeklySeries ==
  out.op = "showDashboard" =>
    LET chartData == out.weekly.chartData
    IN  /\ Len(chartData) = 7
        /\ \A i \in 1..7 :
             /\ chartData[i].date = MondayOf(today) + i - 1
             /\ chartData[i].kcal = IF totalKcalOn(chartData[i].date) = Undef
                                    THEN 0 ELSE totalKcalOn(chartData[i].date)
        /\ \E i \in 1..7 : chartData[i].date = today
        /\ out.weekly.weeklyTotal = SumOf(chartData, "kcal")

\* --------------------------------------------------------- C21, C22, C30
\* the total stored for a local date, a day without a log counting 0
kcalOfDay(date) == IF totalKcalOn(date) = Undef THEN 0 ELSE totalKcalOn(date)

\* the 7 local dates ending at today with the total of each
trailingWeek == [k \in 1..7 |-> [date |-> today - 7 + k,
                                 kcal |-> kcalOfDay(today - 7 + k)]]

\* C21: weeklyReport covers the 7 local calendar days ending at the
\* reference date (the 6 days before it and the day itself), and the total
\* it reports is the sum of totalKcal over exactly those 7 days, a day
\* without a log counting 0.
C21_ReportWindow ==
  [][showWeeklyReport(1) =>
       /\ \A k \in 1..7 : out'.report.weekDates[k] = trailingWeek[k].date
       /\ out'.report.weeklyTotal = SumOf(trailingWeek, "kcal")]_vars

\* C22: for the same reference date the 7 dates of weeklySeries and the 7
\* dates of weeklyReport are the same set when the reference date is a
\* Sunday and different sets on every other weekday.
C22_SeriesVersusReport ==
  [][showWeeklyReport(1) =>
       LET series == {getWeeklyChartData.chartData[i].date : i \in 1..7}
           report == {out'.report.weekDates[k] : k \in 1..7}
       IN  (series = report) <=> ((today + 4) % 7 = 0)]_vars

\* C30: the average weeklyReport shows is the total it reports divided by
\* the number of logs of the days of its window (the days with a log), 0
\* when there is none, and not the total divided by 7.
C30_ReportAverage ==
  [][showWeeklyReport(1) =>
       LET n == Cardinality({k \in 1..7 : totalKcalOn(trailingWeek[k].date) # Undef})
           r == out'.report
       IN  /\ r.weeklyAverage = IF n = 0 THEN 0 ELSE Round(r.weeklyTotal, n)
           /\ (n < 7 /\ r.weeklyTotal > 0) =>
                r.weeklyAverage # Round(r.weeklyTotal, 7)]_vars

\* ------------------------------------------------------------------ C23
\* C23: weeklySeries, weeklyReport, streak, getDay and listDays leave the
\* logs, foods and config collections and the food cache unchanged, so that
\* getDay of any date returns the same document, with the same totals,
\* after any of them as before it.
C23_ReadsKeepStore ==
  [][ReadStep(1) =>
       /\ UNCHANGED <<logs, foods, config, foodCache>>
       /\ \A d \in 1..MaxDay : findLog(d)' = findLog(d)]_vars

\* the dashboard read today's log with a meal in it, then the day detail
\* page read it again and got the same document
C23_Witness ==
  /\ out.op = "showDashboard"
  /\ out.todayLog # NoView
  /\ out.todayLog.totalKcal > 0
  /\ view[1] = out.todayLog

\* ------------------------------------------------------------------ C24
\* the slot of each local hour: 5-11 Morning, 12-16 Afternoon, 17-20
\* Evening, every other hour Night
SlotOfHour ==
  [h \in 0..23 |-> IF h \in 5..11 THEN "Morning"
                   ELSE IF h \in 12..16 THEN "Afternoon"
                   ELSE IF h \in 17..20 THEN "Evening"
                   ELSE "Night"]

\* the entry a logMeal of this step appended to today's log
pushedEntry ==
  LET doc == logs'[IndexOfDate(logs', today)]
  IN  doc.entries[Len(doc.entries)]

\* C24: the automatic time slot is a total function of the local hour:
\* hours 5-11 give Morning, 12-16 Afternoon, 17-20 Evening and every other
\* hour Night, so each hour 0..23 has exactly one slot, and that slot is the
\* one stored with a meal logged with 'Auto'.
C24_TimeSlot ==
  /\ [](/\ getHours \in 0..23
        /\ getTimeSlot = SlotOfHour[getHours]
        /\ Cardinality({s \in SlotChoices \ {"Auto"} : getTimeSlot = s}) = 1)
  /\ [][\A i \in 1..MaxFoods, t \in Times :
          addMealSlot(1, i, t, "Auto", TRUE) =>
            pushedEntry.timeSlot = SlotOfHour[getHours]]_vars

\* a meal logged with 'Auto' in the last minute of hour 20 is stored as
\* Evening
C24_Witness ==
  /\ clock.minute = 20 * 60 + 59
  /\ lastOp = [op |-> "addMeal", res |-> "ok"]
  /\ \E k \in 1..Len(logs) : \E j \in 1..Len(logs[k].entries) :
       logs[k].entries[j].timeSlot = "Evening"

\* ------------------------------------------------------------------ C29
\* C29: editEntry changes only the name, kcal, protein, carbs and fat of
\* the selected entry and the four totals of its day; the entry's id, time,
\* timeSlot and place in the order of the entries, every other entry of the
\* day and the log of every other day stay as they were.
C29_EditFrame ==
  [][\A id \in EntryIdsOf(view[1]), n \in Names, b \in Kcals, c \in EditCategories :
       editEntry(1, id, n, b, c, TRUE) =>
         LET k == IndexOfLog(logs, view[1].id)
         IN  /\ Len(logs') = Len(logs)
             /\ \A x \in 1..Len(logs) : x # k => logs'[x] = logs[x]
             /\ logs'[k].id = logs[k].id
             /\ logs'[k].date = logs[k].date
             /\ Len(logs'[k].entries) = Len(logs[k].entries)
             /\ \A j \in 1..Len(logs[k].entries) :
                  LET old == logs[k].entries[j]
                      new == logs'[k].entries[j]
                  IN  /\ new.id = old.id
                      /\ new.time = old.time
                      /\ new.timeSlot = old.timeSlot
                      /\ old.id # id => new = old]_vars

\* an edit has just renamed one of the two entries of a day while the log
\* of another day exists
C29_Witness ==
  /\ LastOk("editEntry")
  /\ Len(logs) = 2
  /\ \E k \in 1..Len(logs) :
       /\ Len(logs[k].entries) = 2
       /\ logs[k].entries[1].name # logs[k].entries[2].name

\* ------------------------------------------------------------- C25 - C28
\* main is in its loop: showDashboard is called, a page is shown, or the
\* catch block runs
InLoop == pc \in {"showDashboard", "menu", "catch", "delay"}

\* C25: when the catalog cannot be fetched from the store at process start
\* (the connection fails, or Food.find of loadFoodCache rejects) the process
\* exits and never enters the dashboard loop.
C25_LoadFailureFatal ==
  /\ [][\A seed \in SeedOutcomes : connectDB(FALSE, seed) => (pc' = "exit")]_vars
  /\ [][loadFoodCache(FALSE) => (pc' = "exit")]_vars
  /\ [](lastOp = [op |-> "loadFoodCache", res |-> "StoreError"] => ~InLoop)

\* a call on the store failed and the dashboard has not been shown since
StoreFailed ==
  \/ pc \in {"catch", "delay"}
  \/ pc = "showDashboard" /\ lastOp.res = "StoreError"

\* the dashboard is on the screen
Rendered == pc = "menu" /\ out.op = "showDashboard"

C27_NoRetry ==
  /\ [](issued <= 1)
  /\ [][lastOp'.res \notin {"ok"} => UNCHANGED <<logs, foods, config, foodCache>>]_vars
  /\ [][(pc \in {"catch", "delay", "showDashboard"}) =>
          UNCHANGED <<logs, foods, config, foodCache>>]_vars

\* an addMeal failed, the loop caught it, the dashboard is shown again and
\* no meal was logged
C27_Witness ==
  /\ lastOp = [op |-> "addMeal", res |-> "StoreError"]
  /\ issued = 1
  /\ pc = "menu"
  /\ foodCache[1] # <<>>
  /\ logs = <<>>

\* C28: after setDailyGoal(g) with g > 0 has reported success the goal read
\* by the dashboard, the history and the streak is g until the next
\* setDailyGoal, whatever the configs collection held before, also when
\* seeding created no user_settings document.
C28_GoalInForce ==
  /\ [][\A g \in Goals : setDailyGoal(1, g, TRUE) => dailyGoalOf(config') = g]_vars
  /\ [][dailyGoalOf(config') # dailyGoalOf(config) =>
          \E g \in Goals, ok \in BOOLEAN : setDailyGoal(1, g, ok)]_vars
  /\ [][showDashboard(1) =>
          /\ out'.dailyGoal = dailyGoalOf(config)
          /\ out'.streak = calculateStreak(dailyGoalOf(config))]_vars
  /\ [][viewHistory(1) => out'.dailyGoal = dailyGoalOf(config)]_vars

====
